---- MODULE Spec2Model ----
(***************************************************************************)
(* A model of the Monte Carlo notebooks: the inversion sampler             *)
(* (inversionSampling) and the importance sampler (importanceSampling),    *)
(* both reading the process-wide NumPy random stream.                      *)
(*                                                                         *)
(* Floating-point numbers are modelled as exact rationals extended with    *)
(* the IEEE special values inf and NaN: rounding is not modelled, the      *)
(* special values that 0/0 and c/0 produce are.                            *)
(***************************************************************************)
EXTENDS Integers, Sequences, FiniteSets, TLC

(* ------------------------------ bounds --------------------------------- *)

\* Longest grid of the inversion notebook.
MaxLen == 4
\* Longest grid of the importance notebook.
MaxLenImp == 3
\* Grid points are taken from 0..MaxX.
MaxX == 3
\* Table values (y, f, w) are taken from 0..MaxY.
MaxY == 1
\* The uniform variates of the stream are the multiples k/Denom in [0, 1).
Denom == 3
\* The number of variates of the seeded stream that the model follows.
MaxDraws == 2
\* Largest number n of points of the Pi estimate.
MaxPoints == 2
\* The variates of the Pi notebook are the multiples k/PiDenom in [0, 1).
PiDenom == 4
\* The radius r of the Pi notebook is taken from 1..MaxRadius.
MaxRadius == 2
\* Longest grid of the notebook with the five-argument importance sampler.
MaxLenVar == 2
\* Largest constant by which a table is scaled.
MaxScale == 3
\* Number of walkers of the emcee notebook.
MaxWalkers == 2
\* Walker positions are taken from 0..MaxCoord.
MaxCoord == 1
\* Largest nburn and largest nsteps of the emcee notebook.
MaxSteps == 2

(* --------------------- floating-point values --------------------------- *)

Abs(a) == IF a < 0 THEN -a ELSE a

Sgn(a) == IF a < 0 THEN -1 ELSE IF a > 0 THEN 1 ELSE 0

RECURSIVE GCD(_, _)
GCD(a, b) == IF b = 0 THEN a ELSE GCD(b, a % b)

\* The finite value n/d (d > 0), in lowest terms.
Fin(n, d) ==
    LET g == GCD(Abs(n), d)
    IN  [k |-> "fin", n |-> n \div g, d |-> d \div g]

NaN == [k |-> "nan", n |-> 0, d |-> 1]

\* +inf (s = 1) or -inf (s = -1).
Inf(s) == [k |-> "inf", n |-> s, d |-> 1]

IsNaN(a) == a.k = "nan"

IsFinite(a) == a.k = "fin"

\* IEEE comparisons: every comparison with a NaN is false.
FLt(a, b) ==
    /\ ~IsNaN(a)
    /\ ~IsNaN(b)
    /\ CASE a.k = "fin" /\ b.k = "fin" -> a.n * b.d < b.n * a.d
         [] a.k = "inf" /\ b.k = "inf" -> a.n < b.n
         [] a.k = "inf" -> a.n < 0
         [] OTHER -> b.n > 0

FEq(a, b) == ~IsNaN(a) /\ ~IsNaN(b) /\ a = b

FLe(a, b) == FLt(a, b) \/ FEq(a, b)

FNeg(a) ==
    CASE a.k = "fin" -> Fin(-a.n, a.d)
      [] a.k = "inf" -> Inf(-a.n)
      [] OTHER -> NaN

FAdd(a, b) ==
    CASE IsNaN(a) \/ IsNaN(b) -> NaN
      [] a.k = "fin" /\ b.k = "fin" -> Fin(a.n * b.d + b.n * a.d, a.d * b.d)
      [] a.k = "inf" /\ b.k = "inf" -> IF a.n = b.n THEN a ELSE NaN
      [] a.k = "inf" -> a
      [] OTHER -> b

FSub(a, b) == FAdd(a, FNeg(b))

FMul(a, b) ==
    CASE IsNaN(a) \/ IsNaN(b) -> NaN
      [] a.k = "fin" /\ b.k = "fin" -> Fin(a.n * b.n, a.d * b.d)
      [] a.n = 0 \/ b.n = 0 -> NaN
      [] OTHER -> Inf(Sgn(a.n) * Sgn(b.n))

\* IEEE division: c/0 is an infinity, 0/0 is NaN; neither raises.
FDiv(a, b) ==
    CASE IsNaN(a) \/ IsNaN(b) -> NaN
      [] a.k = "fin" /\ b.k = "fin" ->
            IF b.n = 0
            THEN IF a.n = 0 THEN NaN ELSE Inf(Sgn(a.n))
            ELSE Fin(a.n * b.d * Sgn(b.n), a.d * Abs(b.n))
      [] a.k = "inf" /\ b.k = "inf" -> NaN
      [] a.k = "inf" -> Inf(IF b.n < 0 THEN -a.n ELSE a.n)
      [] OTHER -> Fin(0, 1)

\* An array of integers as an array of floating-point values.
AsFloat(t) == [i \in 1..Len(t) |-> Fin(t[i], 1)]

(* ------------------------- library routines ---------------------------- *)

\* np.cumsum on an array of non-negative integers.
CumSum(t) ==
    LET RECURSIVE Upto(_)
        Upto(i) == IF i = 0 THEN 0 ELSE Upto(i - 1) + t[i]
    IN  [i \in 1..Len(t) |-> Upto(i)]

\* np.amin and np.amax.
AMin(t) == CHOOSE v \in {t[i] : i \in 1..Len(t)} : \A i \in 1..Len(t) : v <= t[i]

AMax(t) == CHOOSE v \in {t[i] : i \in 1..Len(t)} : \A i \in 1..Len(t) : v >= t[i]

\* A search that takes every key to lie inside the table.
SearchIndexInside(key, xp) ==
    LET m == Len(xp)
        stop == {i \in 2..m : ~FLe(xp[i], key)}
    IN  IF stop = {} THEN m
        ELSE (CHOOSE i \in stop : \A o \in stop : i <= o) - 1

\* np.interp's search in xp (1-based): 0 when key lies below xp[1], Len + 1
\* when it lies above the last entry, otherwise the index reached by the
\* linear search used on short tables: the first j whose successor is not
\* <= key.  On a non-decreasing table that is the last j with xp[j] <= key.
SearchIndex(key, xp) ==
    LET m == Len(xp)
        stop == {i \in 2..m : ~FLe(xp[i], key)}
    IN  IF FLt(xp[m], key) THEN m + 1
        ELSE IF FLt(key, xp[1]) THEN 0
        ELSE IF stop = {} THEN m
        ELSE (CHOOSE i \in stop : \A o \in stop : i <= o) - 1

\* An interpolation that extends the end chords beyond the table.
InterpExtended(j, q, xp, fp) ==
    LET m == Len(xp)
        i == IF j = 0 THEN 1 ELSE IF j >= m THEN m - 1 ELSE j
        slope == FDiv(FSub(fp[i + 1], fp[i]), FSub(xp[i + 1], xp[i]))
    IN  IF IsNaN(q) THEN q
        ELSE FAdd(FMul(slope, FSub(q, xp[i])), fp[i])

\* np.interp(q, xp, fp) for one query point: the end values outside the
\* table, the tabulated value at a knot, the chord between the bracketing
\* knots otherwise.
InterpAt(j, q, xp, fp) ==
    LET m == Len(xp)
    IN  IF IsNaN(q) THEN q
        ELSE IF j = 0 THEN fp[1]
        ELSE IF j >= m THEN fp[m]
        ELSE IF FEq(xp[j], q) THEN fp[j]
        ELSE LET slope == FDiv(FSub(fp[j + 1], fp[j]), FSub(xp[j + 1], xp[j]))
             IN  FAdd(FMul(slope, FSub(q, xp[j])), fp[j])

\* A lookup that returns the value tabulated at the lower knot.
InterpStep(q, xp, fp) ==
    LET m == Len(xp)
        j == SearchIndex(q, xp)
    IN  IF IsNaN(q) THEN q
        ELSE IF j = 0 THEN fp[1]
        ELSE IF j >= m THEN fp[m]
        ELSE fp[j]

Interp(q, xp, fp) == InterpAt(SearchIndex(q, xp), q, xp, fp)

\* np.interp on an array of query points.
InterpAll(qs, xp, fp) == [i \in 1..Len(qs) |-> Interp(qs[i], xp, fp)]

\* Variates read from the beginning of the stream at every call.
UniformFromSeed(low, high, s, start, n) ==
    [i \in 1..n |-> FAdd(low, FMul(FSub(high, low), s[i]))]

\* Variates scaled by high alone.
UniformFromZero(low, high, s, start, n) ==
    [i \in 1..n |-> FMul(high, s[start + i])]

\* np.random.uniform(low, high, n) reading the stream s after position
\* start: low + (high - low) * u for each of the next n variates u.
Uniform(low, high, s, start, n) ==
    [i \in 1..n |->
        FAdd(low, FMul(FSub(high, low), s[start + i]))]

\* xsample[np.argsort(xsample)]: ascending, NaN last, ties in their order.
Before(a, b) == FLt(a, b) \/ (~IsNaN(a) /\ IsNaN(b))

\* An insertion that puts every entry last.
InsertLast(s, e) == Append(s, e)

Insert(s, e) ==
    LET later == {i \in 1..Len(s) : Before(e, s[i])}
    IN  IF later = {} THEN Append(s, e)
        ELSE LET p == CHOOSE i \in later : \A o \in later : i <= o
             IN  SubSeq(s, 1, p - 1) \o <<e>> \o SubSeq(s, p, Len(s))

RECURSIVE SortFloats(_)
SortFloats(s) ==
    IF Len(s) = 0 THEN <<>>
    ELSE Insert(SortFloats(SubSeq(s, 1, Len(s) - 1)), s[Len(s)])

\* A quadrature by left rectangles.
LeftRectangles(w, x) ==
    LET RECURSIVE Sum(_)
        Sum(i) == IF i = 0 THEN 0 ELSE Sum(i - 1) + (x[i + 1] - x[i]) * w[i]
    IN  Fin(Sum(Len(x) - 1), 1)

\* Whether trapz's d * (y[1:] + y[:-1]) broadcasts: d = diff(x) has
\* Len(x) - 1 entries, the other factor Len(w) - 1.
TrapzBroadcasts(w, x) ==
    \/ Len(x) = Len(w)
    \/ Len(x) - 1 = 1
    \/ Len(w) - 1 = 1

\* scipy.integrate.trapz(w, x = x): sum of d[i] * (w[i + 1] + w[i]) / 2,
\* a factor of one entry being stretched to the length of the other.
Trapz(w, x) ==
    LET a == Len(x) - 1
        b == Len(w) - 1
        c == IF a = 1 THEN b ELSE a
        d(i) == IF a = 1 THEN x[2] - x[1] ELSE x[i + 1] - x[i]
        h(i) == IF b = 1 THEN w[2] + w[1] ELSE w[i + 1] + w[i]
        RECURSIVE Sum(_)
        Sum(i) == IF i = 0 THEN 0 ELSE Sum(i - 1) + d(i) * h(i)
    IN  Fin(Sum(c), 2)

(* ----------------------------- state ------------------------------------ *)

VARIABLES
    notebook,   \* which notebook this process runs
    x,          \* the caller's grid
    y,          \* the caller's tabulated density (inversion notebook)
    f,          \* the caller's target table (importance notebook)
    w,          \* the caller's proposal table (importance notebook)
    stream,     \* the variates in [0, 1) that the generator will hand out
    pos,        \* how many variates of the stream have been consumed
    last,       \* the last sampler call: its arguments, locals and outcome
    replay,     \* how the last call compares with the call before it
    seeded,     \* whether np.random.seed has been called in this process
    pi_n,       \* n of the Pi notebook
    pi_r,       \* r of the Pi notebook
    pi_i,       \* the Pi loop: how many points it has processed
    counter,    \* the Pi loop's counter
    pi,         \* the Pi loop's last estimate
    pi_arr,     \* the Pi loop's recorded estimates
    pc,         \* the Pi notebook's next cell
    nburn,      \* emcee notebook: length of the burn-in run
    nsteps,     \* emcee notebook: length of the production run
    p0,         \* emcee notebook: the walkers' initial guess
    mc_pos,     \* emcee notebook: pos, the positions run_mcmc returned
    chain,      \* emcee notebook: the steps the sampler has stored
    mc_pc       \* emcee notebook: the next cell

\* The Pi notebook's names (its x and y are the variables x and y).
piVars == <<pi_n, pi_r, pi_i, counter, pi, pi_arr, pc>>

\* The emcee notebook's names.
mcVars == <<nburn, nsteps, p0, mc_pos, chain, mc_pc>>

vars ==
    <<notebook, x, y, f, w, stream, pos, last, replay, seeded, piVars, mcVars>>

\* The emcee notebook is not the one that runs.
NoMcmc ==
    /\ nburn = 0
    /\ nsteps = 0
    /\ p0 = <<>>
    /\ mc_pos = "unbound"
    /\ chain = <<>>
    /\ mc_pc = "none"

\* No sampler call has been made yet.
NoCall ==
    [op |-> "none", n |-> 0, start |-> 0, status |-> "none", consumed |-> 0,
     cdf |-> <<>>, norm |-> Fin(0, 1), draws |-> <<>>, xs |-> <<>>,
     ret |-> <<>>, weights |-> <<>>]

(* ----------------------------- samplers -------------------------------- *)

\* A cumulative table left as the prefix sums.
UnnormalisedCDF(yy) == AsFloat(CumSum(yy))

\* y1 = np.cumsum(y); y1 /= y1[-1]
NormalisedCDF(yy) ==
    LET c == CumSum(yy)
    IN  [i \in 1..Len(c) |-> FDiv(Fin(c[i], 1), Fin(c[Len(c)], 1))]

\* inversionSampling(x, y, n), called when the stream s stands at start.
\* np.random.uniform raises ValueError on a negative n before drawing;
\* np.interp raises ValueError on tables of different lengths, after the
\* draws are taken.
inversionSampling(xx, yy, n, s, start) ==
    LET y1 == NormalisedCDF(yy)
        call == [NoCall EXCEPT !.op = "inversionSampling", !.n = n,
                               !.start = start, !.cdf = y1]
    IN  IF n < 0 THEN [call EXCEPT !.status = "ValueError"]
        ELSE
        LET ysample == Uniform(Fin(0, 1), Fin(1, 1), s, start, n)
            drawn == [call EXCEPT !.consumed = n, !.draws = ysample]
        IN  IF Len(y1) # Len(xx) THEN [drawn EXCEPT !.status = "ValueError"]
            ELSE
            LET xsample == InterpAll(ysample, y1, AsFloat(xx))
            IN  [drawn EXCEPT !.status = "returned", !.xs = xsample,
                              !.ret = SortFloats(xsample)]

\* Weights with target and proposal exchanged.
WeightsOverTarget(norm, xsample, xx, ff, ww) ==
    [i \in 1..Len(xsample) |->
        FDiv(FMul(norm, Interp(xsample[i], AsFloat(xx), AsFloat(ww))),
             Interp(xsample[i], AsFloat(xx), AsFloat(ff)))]

\* Weights without the normalising constant.
WeightsUnscaled(norm, xsample, xx, ff, ww) ==
    [i \in 1..Len(xsample) |->
        FDiv(Interp(xsample[i], AsFloat(xx), AsFloat(ff)),
             Interp(xsample[i], AsFloat(xx), AsFloat(ww)))]

\* Weights evaluated at the positions in ascending order.
WeightsOfSorted(norm, xsample, xx, ff, ww) ==
    LET sorted == SortFloats(xsample)
    IN  [i \in 1..Len(xsample) |->
            FDiv(FMul(norm, Interp(sorted[i], AsFloat(xx), AsFloat(ff))),
                 Interp(sorted[i], AsFloat(xx), AsFloat(ww)))]

\* The weights line: norm * np.interp(xsample, x, f) / np.interp(xsample, x, w)
Weights(norm, xsample, xx, ff, ww) ==
    [i \in 1..Len(xsample) |->
        FDiv(FMul(norm, Interp(xsample[i], AsFloat(xx), AsFloat(ff))),
             Interp(xsample[i], AsFloat(xx), AsFloat(ww)))]

\* A sampler whose positions follow the proposal: the inversion sampler
\* applied to w, unsorted, with the weights of its positions.
importanceFromProposal(xx, ff, ww, n, s, start) ==
    LET drawn == inversionSampling(xx, ww, n, s, start)
    IN  [drawn EXCEPT !.op = "importanceSampling",
                      !.cdf = <<>>,
                      !.norm = Trapz(ww, xx),
                      !.ret = drawn.xs,
                      !.weights = IF drawn.status = "returned"
                                  THEN Weights(Trapz(ww, xx), drawn.xs,
                                               xx, ff, ww)
                                  ELSE <<>>]

\* importanceSampling(x, f, w, n), called when the stream s stands at start.
\* trapz raises ValueError when its operands do not broadcast, before the
\* draws; np.interp raises it on tables of different lengths, after them.
importanceSampling(xx, ff, ww, n, s, start) ==
    LET xmin == AMin(xx)
        xmax == AMax(xx)
        call == [NoCall EXCEPT !.op = "importanceSampling", !.n = n,
                               !.start = start]
    IN  IF ~TrapzBroadcasts(ww, xx) THEN [call EXCEPT !.status = "ValueError"]
        ELSE
        LET norm == Trapz(ww, xx)
            normed == [call EXCEPT !.norm = norm]
        IN  IF n < 0 THEN [normed EXCEPT !.status = "ValueError"]
            ELSE
            LET u == Uniform(Fin(0, 1), Fin(1, 1), s, start, n)
                xsample == Uniform(Fin(xmin, 1), Fin(xmax, 1), s, start, n)
                drawn == [normed EXCEPT !.consumed = n, !.draws = u,
                                        !.xs = xsample]
            IN  IF Len(ff) # Len(xx) \/ Len(ww) # Len(xx)
                THEN [drawn EXCEPT !.status = "ValueError"]
                ELSE [drawn EXCEPT !.status = "returned", !.ret = xsample,
                          !.weights = Weights(norm, xsample, xx, ff, ww)]

\* A cumulative sum written over the caller's y.
InversionArraysInPlace(xx, yy) == <<xx, CumSum(yy)>>

\* The caller's arrays as a call of inversionSampling leaves them: cumsum
\* allocates y1, and the division and the sort work on the function's own
\* arrays.
InversionArrays(xx, yy) == <<xx, yy>>

\* The caller's arrays as a call of importanceSampling leaves them.
ImportanceArrays(xx, ff, ww) == <<xx, ff, ww>>

\* What a call hands back to its caller: how it ended, and the arrays.
Outcome(call) == <<call.status, call.ret, call.weights>>

\* The call r compared with the call before it: "same" or "differs" when
\* both are calls of one sampler with one n from one position of the
\* seeded stream, "none" otherwise.
Compare(before, r) ==
    IF before.op = r.op /\ before.n = r.n /\ before.start = r.start
    THEN IF Outcome(before) = Outcome(r) THEN "same" ELSE "differs"
    ELSE "none"

(* ------------------------------ program -------------------------------- *)

\* Strictly increasing grids of 2..longest points in 0..MaxX.
Grids(longest) ==
    UNION {{g \in [1..m -> 0..MaxX] : \A i \in 1..(m - 1) : g[i] < g[i + 1]} :
           m \in 2..longest}

\* The tables on a grid of m points.
TablesOn(m) == [1..m -> 0..MaxY]

\* The tables a caller may pass last with a grid of m points: as long as
\* the grid, or one entry short of it.
TablesFor(m) == TablesOn(m) \cup TablesOn(m - 1)

\* The variates k/d of [0, 1).
Variates(d) == {Fin(k, d) : k \in 0..(d - 1)}

\* The streams a seed may fix.
Streams == [1..MaxDraws -> Variates(Denom)]

\* The state once the notebook's set-up cells have run: the generator is
\* seeded, the tables are built, no sampler has been called.
Init ==
    /\ notebook \in {"inversion", "importance"}
    /\ IF notebook = "inversion"
       THEN /\ x \in Grids(MaxLen)
            /\ y \in TablesFor(Len(x))
            /\ f = <<>>
            /\ w = <<>>
       ELSE /\ x \in Grids(MaxLenImp)
            /\ y = <<>>
            /\ f \in TablesOn(Len(x))
            /\ w \in TablesFor(Len(x))
    /\ stream \in Streams
    /\ pos = 0
    /\ last = NoCall
    /\ replay = "none"
    /\ seeded = TRUE
    /\ pi_n = 0
    /\ pi_r = 0
    /\ pi_i = 0
    /\ counter = "unbound"
    /\ pi = "unbound"
    /\ pi_arr = "unbound"
    /\ pc = "none"
    /\ NoMcmc

\* A seed taken from the clock: the stream starts over with other values.
SeedFromClock ==
    /\ pos' = 0
    /\ stream' \in Streams
    /\ seeded' = TRUE
    /\ UNCHANGED <<notebook, x, y, f, w, last, replay, piVars, mcVars>>

\* np.random.seed(42): the stream starts over.
Seed ==
    /\ pos' = 0
    /\ seeded' = TRUE
    /\ UNCHANGED <<notebook, x, y, f, w, stream, last, replay, piVars, mcVars>>

\* xs = inversionSampling(x, y, n)
CallInversion ==
    /\ notebook = "inversion"
    /\ \E n \in -1..MaxDraws :
          /\ pos + n <= MaxDraws
          /\ LET r == inversionSampling(x, y, n, stream, pos)
                 a == InversionArrays(x, y)
             IN  /\ last' = r
                 /\ replay' = Compare(last, r)
                 /\ pos' = pos + r.consumed
                 /\ x' = a[1]
                 /\ y' = a[2]
    /\ UNCHANGED <<notebook, f, w, stream, seeded, piVars, mcVars>>

\* xs, w = importanceSampling(x, f, w, n)
CallImportance ==
    /\ notebook = "importance"
    /\ \E n \in -1..MaxDraws :
          /\ pos + n <= MaxDraws
          /\ LET r == importanceSampling(x, f, w, n, stream, pos)
                 a == ImportanceArrays(x, f, w)
             IN  /\ last' = r
                 /\ replay' = Compare(last, r)
                 /\ pos' = pos + r.consumed
                 /\ x' = a[1]
                 /\ f' = a[2]
                 /\ w' = a[3]
    /\ UNCHANGED <<notebook, y, stream, seeded, piVars, mcVars>>

Next == Seed \/ CallInversion \/ CallImportance

Spec == Init /\ [][Next]_vars

(* ------------- notebook with the five-argument sampler ----------------- *)

\* y * w, entry by entry.
Product(yy, ww) == [i \in 1..Len(yy) |-> yy[i] * ww[i]]

\* The weights line of the five-argument sampler:
\* norm * np.interp(xsample, x, y * w) / np.interp(xsample, x, w)
WeightsOfProduct(norm, xsample, xx, yy, ww) ==
    [i \in 1..Len(xsample) |->
        FDiv(FMul(norm,
                  Interp(xsample[i], AsFloat(xx), AsFloat(Product(yy, ww)))),
             Interp(xsample[i], AsFloat(xx), AsFloat(ww)))]

\* importanceSampling(x, y, f, w, n), called when the stream s stands at
\* start.  The argument f is not read.
importanceSampling5(xx, yy, ff, ww, n, s, start) ==
    LET xmin == AMin(xx)
        xmax == AMax(xx)
        call == [NoCall EXCEPT !.op = "importanceSampling5", !.n = n,
                               !.start = start]
    IN  IF ~TrapzBroadcasts(ww, xx) THEN [call EXCEPT !.status = "ValueError"]
        ELSE
        LET norm == Trapz(ww, xx)
            normed == [call EXCEPT !.norm = norm]
        IN  IF n < 0 THEN [normed EXCEPT !.status = "ValueError"]
            ELSE
            LET u == Uniform(Fin(0, 1), Fin(1, 1), s, start, n)
                xsample == Uniform(Fin(xmin, 1), Fin(xmax, 1), s, start, n)
                drawn == [normed EXCEPT !.consumed = n, !.draws = u,
                                        !.xs = xsample]
            IN  IF Len(yy) # Len(ww) \/ Len(ww) # Len(xx)
                THEN [drawn EXCEPT !.status = "ValueError"]
                ELSE [drawn EXCEPT !.status = "returned", !.ret = xsample,
                          !.weights =
                              WeightsOfProduct(norm, xsample, xx, yy, ww)]

\* The state once the set-up cells have run: seed, x, y, f, w.
VariantInit ==
    /\ notebook = "importance5"
    /\ x \in Grids(MaxLenVar)
    /\ y \in TablesOn(Len(x))
    /\ f \in TablesOn(Len(x))
    /\ w \in TablesOn(Len(x))
    /\ stream \in Streams
    /\ pos = 0
    /\ last = NoCall
    /\ replay = "none"
    /\ seeded = TRUE
    /\ pi_n = 0
    /\ pi_r = 0
    /\ pi_i = 0
    /\ counter = "unbound"
    /\ pi = "unbound"
    /\ pi_arr = "unbound"
    /\ pc = "none"
    /\ NoMcmc

\* xs, w = importanceSampling(x, y, f, w, n)
CallVariant ==
    /\ notebook = "importance5"
    /\ \E n \in -1..MaxDraws :
          /\ pos + n <= MaxDraws
          /\ LET r == importanceSampling5(x, y, f, w, n, stream, pos)
             IN  /\ last' = r
                 /\ replay' = Compare(last, r)
                 /\ pos' = pos + r.consumed
    /\ UNCHANGED <<notebook, x, y, f, w, stream, seeded, piVars, mcVars>>

VariantNext == Seed \/ CallVariant

VariantSpec == VariantInit /\ [][VariantNext]_vars

(* --------------------------- Pi notebook ------------------------------- *)

\* The streams of a generator that nothing has seeded.
PiStreams(n) == [1..(2 * n) -> Variates(PiDenom)]

\* The state once the import cell has run: no np.random.seed call.  The
\* notebook's parameters n and r are the reader's to set.
PiInit ==
    /\ notebook = "pi"
    /\ x = <<>>
    /\ y = <<>>
    /\ f = <<>>
    /\ w = <<>>
    /\ pi_n \in 1..MaxPoints
    /\ pi_r \in 1..MaxRadius
    /\ stream \in PiStreams(pi_n)
    /\ pos = 0
    /\ last = NoCall
    /\ replay = "none"
    /\ seeded = FALSE
    /\ pi_i = 0
    /\ counter = "unbound"
    /\ pi = "unbound"
    /\ pi_arr = "unbound"
    /\ pc = "draw"
    /\ NoMcmc

\* x = np.random.uniform(0, r, n); y = np.random.uniform(0, r, n)
DrawPoints ==
    /\ pc = "draw"
    /\ x' = Uniform(Fin(0, 1), Fin(pi_r, 1), stream, pos, pi_n)
    /\ y' = Uniform(Fin(0, 1), Fin(pi_r, 1), stream, pos + pi_n, pi_n)
    /\ pos' = pos + 2 * pi_n
    /\ pc' = "loop"
    /\ UNCHANGED <<notebook, f, w, stream, last, replay, seeded,
                   pi_n, pi_r, pi_i, counter, pi, pi_arr, mcVars>>

\* counter = 0.; pi_arr = []
StartLoop ==
    /\ pc = "loop"
    /\ counter' = 0
    /\ pi_arr' = <<>>
    /\ pi_i' = 0
    /\ pc' = "body"
    /\ UNCHANGED <<notebook, x, y, f, w, stream, pos, last, replay, seeded,
                   pi_n, pi_r, pi, mcVars>>

\* A test that every point of the unit square passes.
InsideSquare(px, py) == FLe(px, Fin(1, 1)) /\ FLe(py, Fin(1, 1))

\* x[i] ** 2 + y[i] ** 2 <= 1.
Inside(px, py) == FLe(FAdd(FMul(px, px), FMul(py, py)), Fin(1, 1))

\* One iteration of "for i in range(n)", i being pi_i.
Iterate ==
    /\ pc = "body"
    /\ pi_i < pi_n
    /\ IF Inside(x[pi_i + 1], y[pi_i + 1])
       THEN /\ counter' = counter + 1
            /\ pi' = Fin(4 * counter', pi_i + 1)
            /\ pi_arr' = Append(pi_arr, pi')
       ELSE UNCHANGED <<counter, pi, pi_arr>>
    /\ pi_i' = pi_i + 1
    /\ UNCHANGED <<notebook, x, y, f, w, stream, pos, last, replay, seeded,
                   pi_n, pi_r, pc, mcVars>>

\* The loop is exhausted.
EndLoop ==
    /\ pc = "body"
    /\ pi_i = pi_n
    /\ pc' = "done"
    /\ UNCHANGED <<notebook, x, y, f, w, stream, pos, last, replay, seeded,
                   pi_n, pi_r, pi_i, counter, pi, pi_arr, mcVars>>

PiNext == DrawPoints \/ StartLoop \/ Iterate \/ EndLoop

PiSpec == PiInit /\ [][PiNext]_vars

(* -------------------------- emcee notebook ----------------------------- *)

\* The positions of the ensemble: one coordinate per walker.
Positions == [1..MaxWalkers -> 0..MaxCoord]

\* sampler.run_mcmc(start, N) on a sampler that has stored the steps in
\* stored, the ensemble moving along path: every step is stored behind the
\* earlier ones, with the positions it left and the positions it reached.
\* run names the call that stored the step.
run_mcmc(stored, start, path, run) ==
    stored \o [t \in 1..Len(path) |->
                 [run |-> run,
                  from |-> IF t = 1 THEN start ELSE path[t - 1],
                  at |-> path[t]]]

\* A reset that leaves the stored steps in place.
resetNothing(stored) == stored

\* sampler.reset(): the stored steps are dropped.
reset(stored) == <<>>

\* sampler.flatchain: the stored positions, walker after walker.
flatchain(stored) ==
    [k \in 1..(MaxWalkers * Len(stored)) |->
        LET wk == ((k - 1) \div Len(stored)) + 1
            t == ((k - 1) % Len(stored)) + 1
        IN  [run |-> stored[t].run, walker |-> wk, coord |-> stored[t].at[wk]]]

\* The state once the sampler is constructed: nothing stored.
McmcInit ==
    /\ notebook = "emcee"
    /\ x = <<>>
    /\ y = <<>>
    /\ f = <<>>
    /\ w = <<>>
    /\ stream = <<>>
    /\ pos = 0
    /\ last = NoCall
    /\ replay = "none"
    /\ seeded = FALSE
    /\ pi_n = 0
    /\ pi_r = 0
    /\ pi_i = 0
    /\ counter = "unbound"
    /\ pi = "unbound"
    /\ pi_arr = "unbound"
    /\ pc = "none"
    /\ nburn \in 1..MaxSteps
    /\ nsteps \in 1..MaxSteps
    /\ p0 \in Positions
    /\ mc_pos = "unbound"
    /\ chain = <<>>
    /\ mc_pc = "burn-in"

\* pos, prob, state = sampler.run_mcmc(p0, nburn); sampler.reset()
BurnIn ==
    /\ mc_pc = "burn-in"
    /\ \E path \in [1..nburn -> Positions] :
          /\ mc_pos' = path[nburn]
          /\ chain' = reset(run_mcmc(chain, p0, path, "burn-in"))
    /\ mc_pc' = "production"
    /\ UNCHANGED <<notebook, x, y, f, w, stream, pos, last, replay, seeded,
                   piVars, nburn, nsteps, p0>>

\* sampler.run_mcmc(pos, nsteps)
Production ==
    /\ mc_pc = "production"
    /\ \E path \in [1..nsteps -> Positions] :
          chain' = run_mcmc(chain, mc_pos, path, "production")
    /\ mc_pc' = "plot"
    /\ UNCHANGED <<notebook, x, y, f, w, stream, pos, last, replay, seeded,
                   piVars, nburn, nsteps, p0, mc_pos>>

\* plt.hist(sampler.flatchain[:, 0], ...): the chain is read.
Plot ==
    /\ mc_pc = "plot"
    /\ mc_pc' = "done"
    /\ UNCHANGED <<notebook, x, y, f, w, stream, pos, last, replay, seeded,
                   piVars, nburn, nsteps, p0, mc_pos, chain>>

McmcNext == BurnIn \/ Production \/ Plot

McmcSpec == McmcInit /\ [][McmcNext]_vars

(* --------------------------- vocabulary -------------------------------- *)

StrictlyIncreasing(t) == \A i \in 1..(Len(t) - 1) : t[i] < t[i + 1]

NonNegative(t) == \A i \in 1..Len(t) : t[i] >= 0

Total(t) == IF Len(t) = 0 THEN 0 ELSE CumSum(t)[Len(t)]

\* The last call was inversionSampling(x, y, last.n).
InversionCalled == last.op = "inversionSampling"

\* The last call was importanceSampling(x, f, w, last.n).
ImportanceCalled == last.op = "importanceSampling"

InversionReturned == InversionCalled /\ last.status = "returned"

ImportanceReturned == ImportanceCalled /\ last.status = "returned"

\* The input contract of the inversion sampler, n aside.
ValidDensity ==
    /\ StrictlyIncreasing(x)
    /\ Len(y) = Len(x)
    /\ NonNegative(y)
    /\ Total(y) > 0

\* The input contract of the importance sampler, n aside.
ValidProposal ==
    /\ StrictlyIncreasing(x)
    /\ Len(f) = Len(x)
    /\ Len(w) = Len(x)

\* An input-contract violation of the last call.
ContractViolated ==
    \/ last.n <= 0
    \/ InversionCalled /\ (~StrictlyIncreasing(x) \/ Len(y) # Len(x))
    \/ ImportanceCalled /\ ~ValidProposal

Samples == 1..Len(last.ret)

XMin == Fin(AMin(x), 1)

XMax == Fin(AMax(x), 1)

(* ------------------------------ claims --------------------------------- *)

\* C1: on a valid tabulated density and n > 0, every sample that
\* inversionSampling returns lies in [min(x), max(x)], whatever the draws.
C1_SupportContainment ==
    (InversionCalled /\ ValidDensity /\ last.n > 0) =>
        /\ last.status = "returned"
        /\ \A k \in Samples : FLe(XMin, last.ret[k]) /\ FLe(last.ret[k], XMax)

\* C1 witness: two samples were returned, one at the lower end of the
\* support and one strictly inside it.
C1_Witness ==
    /\ InversionReturned /\ ValidDensity /\ last.n = 2
    /\ last.ret[1] = XMin
    /\ FLt(XMin, last.ret[2]) /\ FLt(last.ret[2], XMax)

\* C2: for y >= 0 with a positive sum, the cumulative table y1 built by
\* inversionSampling is non-decreasing, starts at a value >= 0 and ends at
\* exactly 1.
C2_MonotoneCDF ==
    (InversionCalled /\ NonNegative(y) /\ Total(y) > 0) =>
        /\ Len(last.cdf) = Len(y)
        /\ \A i \in 1..(Len(y) - 1) : FLe(last.cdf[i], last.cdf[i + 1])
        /\ FLe(Fin(0, 1), last.cdf[1])
        /\ last.cdf[Len(y)] = Fin(1, 1)

\* C2 witness: a table with a rising step and a flat step that does not
\* start at 1.
C2_Witness ==
    /\ InversionCalled /\ NonNegative(y) /\ Total(y) > 0
    /\ \E i \in 1..(Len(y) - 1) : FLt(last.cdf[i], last.cdf[i + 1])
    /\ \E i \in 1..(Len(y) - 1) : last.cdf[i] = last.cdf[i + 1]
    /\ last.cdf[1] # Fin(1, 1)

\* C3 (as claimed): inversionSampling called with y identically zero does
\* not return a sample sequence: it fails with an error.
C3_DegenerateRejected ==
    (InversionCalled /\ Len(y) = Len(x) /\ last.n > 0 /\ Total(y) = 0) =>
        last.status # "returned"

\* C4 (as claimed): a call that violates the input contract (tables of
\* different lengths, a grid that is not strictly increasing, n <= 0) fails
\* with an error, and no variate of the stream has been consumed by it.
C4_InvalidArgumentFailFast ==
    (last.op # "none" /\ ContractViolated) =>
        /\ last.status # "returned"
        /\ last.consumed = 0

\* C5 (as claimed): importanceSampling never returns an infinite or NaN
\* weight for a position where the interpolated proposal is 0 and the
\* interpolated target is not.
C5_ZeroProposalSurfaced ==
    ImportanceReturned =>
        \A k \in Samples :
            (/\ Interp(last.ret[k], AsFloat(x), AsFloat(w)) = Fin(0, 1)
             /\ Interp(last.ret[k], AsFloat(x), AsFloat(f)) # Fin(0, 1))
            => IsFinite(last.weights[k])

C7_Clamping ==
    InversionReturned =>
        \A k \in 1..Len(last.draws) :
            /\ FLt(last.draws[k], last.cdf[1]) => last.xs[k] = Fin(x[1], 1)
            /\ FLt(last.cdf[Len(x)], last.draws[k]) =>
                    last.xs[k] = Fin(x[Len(x)], 1)

\* C7 witness: a variate strictly between 0 and the first entry of the
\* table was drawn.
C7_Witness ==
    /\ InversionReturned
    /\ \E k \in 1..Len(last.draws) :
          /\ FLt(Fin(0, 1), last.draws[k])
          /\ FLt(last.draws[k], last.cdf[1])

\* The point of the chord from (F[i], x[i]) to (F[i+1], x[i+1]) at u.
Chord(u, i) ==
    FAdd(Fin(x[i], 1),
         FDiv(FMul(FSub(u, last.cdf[i]), Fin(x[i + 1] - x[i], 1)),
              FSub(last.cdf[i + 1], last.cdf[i])))

\* C8 (as claimed): for every variate u with F[i] <= u <= F[i+1] and
\* F[i] < F[i+1], the sample is the chord's point at u and lies in
\* [x[i], x[i+1]].
C8_BracketingClosed ==
    InversionReturned =>
        \A k \in 1..Len(last.draws) : \A i \in 1..(Len(x) - 1) :
            (/\ FLe(last.cdf[i], last.draws[k])
             /\ FLe(last.draws[k], last.cdf[i + 1])
             /\ FLt(last.cdf[i], last.cdf[i + 1]))
            => /\ last.xs[k] = Chord(last.draws[k], i)
               /\ FLe(Fin(x[i], 1), last.xs[k])
               /\ FLe(last.xs[k], Fin(x[i + 1], 1))

\* C8 (amended): for every variate u with F[i] <= u < F[i+1], the sample
\* is the chord's point at u and lies in [x[i], x[i+1]].
C8_BracketingHalfOpen ==
    InversionReturned =>
        \A k \in 1..Len(last.draws) : \A i \in 1..(Len(x) - 1) :
            (/\ FLe(last.cdf[i], last.draws[k])
             /\ FLt(last.draws[k], last.cdf[i + 1]))
            => /\ last.xs[k] = Chord(last.draws[k], i)
               /\ FLe(Fin(x[i], 1), last.xs[k])
               /\ FLe(last.xs[k], Fin(x[i + 1], 1))

\* C8 witness: a variate strictly inside a bracket gave a sample strictly
\* between the bracket's grid points.
C8_Witness ==
    /\ InversionReturned
    /\ \E k \in 1..Len(last.draws) : \E i \in 1..(Len(x) - 1) :
          /\ FLt(last.cdf[i], last.draws[k])
          /\ FLt(last.draws[k], last.cdf[i + 1])
          /\ FLt(Fin(x[i], 1), last.xs[k])
          /\ FLt(last.xs[k], Fin(x[i + 1], 1))

\* C9: with tables as long as the grid and n > 0, inversionSampling returns
\* n samples, and importanceSampling returns n positions and n weights,
\* weight k being the weight of position k.
C9_OutputSize ==
    /\ (InversionCalled /\ Len(y) = Len(x) /\ last.n > 0) =>
          /\ last.status = "returned"
          /\ Len(last.ret) = last.n
    /\ (ImportanceCalled /\ ValidProposal /\ last.n > 0) =>
          /\ last.status = "returned"
          /\ Len(last.ret) = last.n
          /\ Len(last.weights) = last.n
          /\ \A k \in 1..last.n :
                last.weights[k] =
                    FDiv(FMul(Trapz(w, x),
                              Interp(last.ret[k], AsFloat(x), AsFloat(f))),
                         Interp(last.ret[k], AsFloat(x), AsFloat(w)))

\* C9 witness: importanceSampling returned two positions in descending
\* order, with two different finite weights.
C9_Witness ==
    /\ ImportanceReturned /\ last.n = 2
    /\ FLt(last.ret[2], last.ret[1])
    /\ IsFinite(last.weights[1]) /\ IsFinite(last.weights[2])
    /\ last.weights[1] # last.weights[2]

LinearAt(t, q, i) ==
    FAdd(Fin(t[i], 1),
         FDiv(FMul(FSub(q, Fin(x[i], 1)), Fin(t[i + 1] - t[i], 1)),
              Fin(x[i + 1] - x[i], 1)))

\* The trapezoidal quadrature of the table t on the grid x.
Quadrature(t) ==
    LET cell(i) == (x[i + 1] - x[i]) * (t[i] + t[i + 1])
        RECURSIVE Cells(_)
        Cells(i) == IF i = 0 THEN 0 ELSE Cells(i - 1) + cell(i)
    IN  Fin(Cells(Len(x) - 1), 2)

\* C11: every weight that importanceSampling returns is Z * f(x_k) / w(x_k),
\* f(x_k) and w(x_k) being the values at x_k of the straight lines through
\* the tabulated points that bracket x_k, and Z the integral of w.
C11_WeightFormula ==
    ImportanceReturned =>
        \A k \in Samples : \A i \in 1..(Len(x) - 1) :
            (/\ FLe(Fin(x[i], 1), last.ret[k])
             /\ FLe(last.ret[k], Fin(x[i + 1], 1)))
            => last.weights[k] =
                  FDiv(FMul(Quadrature(w), LinearAt(f, last.ret[k], i)),
                       LinearAt(w, last.ret[k], i))

\* C11 witness: a position strictly between two grid points, where f and w
\* differ, got a finite non-zero weight, Z not being 1.
C11_Witness ==
    /\ ImportanceReturned
    /\ Quadrature(w) # Fin(1, 1)
    /\ \E k \in Samples : \E i \in 1..(Len(x) - 1) :
          /\ FLt(Fin(x[i], 1), last.ret[k])
          /\ FLt(last.ret[k], Fin(x[i + 1], 1))
          /\ LinearAt(f, last.ret[k], i) # LinearAt(w, last.ret[k], i)
          /\ IsFinite(last.weights[k])
          /\ last.weights[k] # Fin(0, 1)

\* C12: the constant norm of importanceSampling is the trapezoidal
\* quadrature of w on x: the sum of (x[i+1] - x[i]) * (w[i] + w[i+1]) / 2,
\* an expression of w and x alone.
C12_TrapezoidalNorm ==
    (ImportanceCalled /\ Len(w) = Len(x)) => last.norm = Quadrature(w)

\* C12 witness: a grid of unequal cells and a proposal that is not constant
\* gave a norm that is not 0.
C12_Witness ==
    /\ ImportanceCalled /\ Len(w) = Len(x) /\ Len(x) = 3
    /\ x[2] - x[1] # x[3] - x[2]
    /\ w[1] # w[2]
    /\ last.norm # Fin(0, 1)

\* C13: every position that importanceSampling returns lies in
\* [min(x), max(x)].
C13_DrawsInDomain ==
    ImportanceReturned =>
        \A k \in Samples : FLe(XMin, last.ret[k]) /\ FLe(last.ret[k], XMax)

\* C13 witness: on a grid that does not start at 0, a position strictly
\* inside the domain and one at its lower end were returned.
C13_Witness ==
    /\ ImportanceReturned
    /\ XMin # Fin(0, 1)
    /\ \E k \in Samples : FLt(XMin, last.ret[k]) /\ FLt(last.ret[k], XMax)
    /\ \E k \in Samples : last.ret[k] = XMin

\* The last call of importanceSampling made again, from the same position
\* of the same stream, with the tables ff and ww.
Again(ff, ww) == importanceSampling(x, ff, ww, last.n, stream, last.start)

C15_PositionsFollowProposal ==
    (ImportanceReturned /\ Quadrature(w) # Fin(0, 1)) =>
        \A k \in Samples : \A i \in 1..(Len(x) - 1) :
            (/\ FLt(Fin(x[i], 1), last.ret[k])
             /\ FLt(last.ret[k], Fin(x[i + 1], 1)))
            => ~(w[i] = 0 /\ w[i + 1] = 0)

\* The last sampler call as it ends when made from position p of the stream.
FromPosition(p) ==
    IF InversionCalled
    THEN inversionSampling(x, y, last.n, stream, p)
    ELSE importanceSampling(x, f, w, last.n, stream, p)

C17_SeededBeforeDraw == pos > 0 => seeded

\* How many of the first k points (x[j], y[j]) have x[j]^2 + y[j]^2 <= 1.
InsideAmong(k) ==
    Cardinality({j \in 1..k :
        FLe(FAdd(FMul(x[j], x[j]), FMul(y[j], y[j])), Fin(1, 1))})

\* C20: throughout the Pi loop counter is the number of processed points
\* inside the circle, 0 <= counter <= processed <= n, every recorded
\* estimate lies in (0, 4], and counter never decreases.
C20_CounterInvariant ==
    /\ [](pc \in {"body", "done"} =>
            /\ counter = InsideAmong(pi_i)
            /\ 0 <= counter /\ counter <= pi_i /\ pi_i <= pi_n
            /\ \A k \in 1..Len(pi_arr) :
                  FLt(Fin(0, 1), pi_arr[k]) /\ FLe(pi_arr[k], Fin(4, 1)))
    /\ [][pc = "body" => counter' >= counter]_vars

\* C20 witness: the loop has ended after a point outside the circle and a
\* point inside it, with the one estimate 4 * 1 / 2 recorded.
C20_Witness ==
    /\ pc = "done" /\ pi_n = 2
    /\ InsideAmong(1) = 0
    /\ counter = 1
    /\ pi_arr = <<Fin(2, 1)>>

\* C21 (as claimed): when the Pi loop has finished, the last entry of pi_arr
\* is 4 * (number of the n points inside the circle) / n.
C21_FinalEstimate ==
    pc = "done" =>
        /\ Len(pi_arr) > 0
        /\ pi_arr[Len(pi_arr)] = Fin(4 * InsideAmong(pi_n), pi_n)

\* C22 (as claimed): when the Pi loop has finished, pi_arr has one entry per
\* processed point, entry k being 4 * (points inside among the first k) / k.
C22_SeriesPerSample ==
    pc = "done" =>
        /\ Len(pi_arr) = pi_n
        /\ \A k \in 1..Len(pi_arr) : pi_arr[k] = Fin(4 * InsideAmong(k), k)

\* How many of the first k points have x[j]^2 + y[j]^2 <= r^2.
WithinRadiusAmong(k) ==
    Cardinality({j \in 1..k :
        FLe(FAdd(FMul(x[j], x[j]), FMul(y[j], y[j])), Fin(pi_r * pi_r, 1))})

Occurrences(v, t) == Cardinality({k \in 1..Len(t) : t[k] = v})

\* C24: the sequence inversionSampling returns never decreases and is a
\* permutation of the interpolated values: every value occurs in it as
\* often as among them.
C24_SortIsPermutation ==
    InversionReturned =>
        /\ Len(last.ret) = Len(last.xs)
        /\ \A k \in 1..(Len(last.ret) - 1) : ~FLt(last.ret[k + 1], last.ret[k])
        /\ \A k \in 1..Len(last.xs) :
              Occurrences(last.xs[k], last.ret) = Occurrences(last.xs[k], last.xs)

\* C24 witness: two interpolated values came out in descending order and
\* were returned swapped.
C24_Witness ==
    /\ InversionReturned /\ last.n = 2
    /\ FLt(last.xs[2], last.xs[1])
    /\ last.ret = <<last.xs[2], last.xs[1]>>

\* C25: in the emcee notebook the production run starts from the positions
\* the burn-in run ended at, and the chain read after it holds the nsteps
\* production steps of every walker and no step of the burn-in.
C25_BurnInExcluded ==
    mc_pc \in {"plot", "done"} =>
        /\ Len(chain) = nsteps
        /\ chain[1].from = mc_pos
        /\ \A t \in 1..Len(chain) : chain[t].run = "production"
        /\ Len(flatchain(chain)) = MaxWalkers * nsteps
        /\ \A wk \in 1..MaxWalkers :
              Cardinality({k \in 1..Len(flatchain(chain)) :
                  /\ flatchain(chain)[k].walker = wk
                  /\ flatchain(chain)[k].run = "production"}) = nsteps

\* C25 witness: a burn-in of two steps moved the walkers away from p0, and
\* the chain read afterwards has the two production steps.
C25_Witness ==
    /\ mc_pc = "done"
    /\ nburn = 2 /\ nsteps = 2
    /\ mc_pos # p0
    /\ Len(chain) = 2
    /\ chain[2].at # chain[1].at

\* C26 (as claimed): every weight that the five-argument importanceSampling
\* returns is norm * f(x_k) / w(x_k), f and w being interpolated linearly
\* at x_k from the tables passed as f and w.
C26_VariantUsesF ==
    (last.op = "importanceSampling5" /\ last.status = "returned") =>
        \A k \in Samples : \A i \in 1..(Len(x) - 1) :
            (/\ FLe(Fin(x[i], 1), last.ret[k])
             /\ FLe(last.ret[k], Fin(x[i + 1], 1)))
            => last.weights[k] =
                  FDiv(FMul(Quadrature(w), LinearAt(f, last.ret[k], i)),
                       LinearAt(w, last.ret[k], i))

\* The variate u maps strictly between the grid points x[i-1] and x[i].
StrictlyInsideCell(k, i) ==
    /\ FLt(Fin(x[i - 1], 1), last.xs[k])
    /\ FLt(last.xs[k], Fin(x[i], 1))

\* The cumulative table rises over cell i by y[i] / sum(y).
CellMass(i) ==
    FSub(last.cdf[i], last.cdf[i - 1]) = FDiv(Fin(y[i], 1), Fin(Total(y), 1))

\* C27 (as claimed): on a valid density, for every cell i the variates that
\* map into (x[i-1], x[i]] are exactly those in (F[i-1], F[i]], an interval
\* of length y[i] / sum(y); the variates u <= F[0] map to x[0]; where
\* y[i] = 0 no sample falls strictly between x[i-1] and x[i].
C27_CellMassHalfOpen ==
    (InversionReturned /\ ValidDensity) =>
        \A k \in 1..Len(last.draws) :
            /\ \A i \in 2..Len(x) :
                  /\ (/\ FLt(Fin(x[i - 1], 1), last.xs[k])
                      /\ FLe(last.xs[k], Fin(x[i], 1)))
                     <=> (/\ FLt(last.cdf[i - 1], last.draws[k])
                          /\ FLe(last.draws[k], last.cdf[i]))
                  /\ CellMass(i)
                  /\ (y[i] = 0 => ~StrictlyInsideCell(k, i))
            /\ FLe(last.draws[k], last.cdf[1]) => last.xs[k] = Fin(x[1], 1)

\* C27 (amended): on a valid density, for every cell i the variates that
\* map strictly between x[i-1] and x[i] are exactly those in the open
\* interval (F[i-1], F[i]), of length y[i] / sum(y); a variate equal to a
\* table entry maps to the last grid point carrying that entry; the variates
\* u < F[0] map to x[0]; where y[i] = 0 no sample falls strictly between
\* x[i-1] and x[i].
C27_CellMassOpen ==
    (InversionReturned /\ ValidDensity) =>
        \A k \in 1..Len(last.draws) :
            /\ \A i \in 2..Len(x) :
                  /\ StrictlyInsideCell(k, i)
                     <=> (/\ FLt(last.cdf[i - 1], last.draws[k])
                          /\ FLt(last.draws[k], last.cdf[i]))
                  /\ CellMass(i)
                  /\ (y[i] = 0 => ~StrictlyInsideCell(k, i))
            /\ \A j \in 1..Len(x) :
                  (/\ last.draws[k] = last.cdf[j]
                   /\ (j = Len(x) \/ last.cdf[j + 1] # last.cdf[j]))
                  => last.xs[k] = Fin(x[j], 1)
            /\ FLt(last.draws[k], last.cdf[1]) => last.xs[k] = Fin(x[1], 1)

\* C27 witness: on a density with an empty cell, one variate inside a cell's
\* interval gave a sample strictly inside that cell, and one variate equal
\* to the table entry of the empty cell gave that cell's upper grid point or
\* a later one.
C27_Witness ==
    /\ InversionReturned
    /\ ValidDensity
    /\ \E k \in 1..Len(last.draws) : \E i \in 2..Len(x) :
          /\ FLt(last.cdf[i - 1], last.draws[k])
          /\ FLt(last.draws[k], last.cdf[i])
          /\ StrictlyInsideCell(k, i)
    /\ \E k \in 1..Len(last.draws) : \E i \in 2..Len(x) :
          /\ y[i] = 0
          /\ last.draws[k] = last.cdf[i]
          /\ FLe(Fin(x[i], 1), last.xs[k])

\* The table t with every entry multiplied by c.
Scaled(t, c) == [i \in 1..Len(t) |-> c * t[i]]

\* The last call of inversionSampling made again, from the same position of
\* the same stream, with the density yy.
AgainInversion(yy) == inversionSampling(x, yy, last.n, stream, last.start)

Positive(t) == \A i \in 1..Len(t) : t[i] > 0

\* The proposals on a grid of m points that are positive at every point.
PositiveTables(m) == [1..m -> 1..MaxScale]

\* C30: with a target f >= 0 and a proposal positive at every grid point,
\* importanceSampling returns, the proposal interpolated at every returned
\* position is > 0, and every weight is finite and >= 0.  The call of the
\* state is made again with every positive proposal on the grid.
C30_PositiveProposal ==
    (ImportanceReturned /\ ValidProposal /\ NonNegative(f) /\ Positive(w)) =>
        \A w2 \in PositiveTables(Len(x)) :
            LET r == Again(f, w2)
            IN  /\ r.status = "returned"
                /\ \A k \in 1..Len(r.ret) :
                      /\ FLt(Fin(0, 1),
                             Interp(r.ret[k], AsFloat(x), AsFloat(w2)))
                      /\ IsFinite(r.weights[k])
                      /\ FLe(Fin(0, 1), r.weights[k])

\* C30 witness: under a positive proposal and a target that vanishes
\* somewhere, a position strictly between two grid points was returned, one
\* weight is 0 and one is > 0, and a positive proposal that is not constant
\* gives other weights, finite again.
C30_Witness ==
    /\ ImportanceReturned /\ ValidProposal /\ Positive(w) /\ last.n = 2
    /\ \E i \in 1..Len(f) : f[i] = 0
    /\ \E k \in Samples : \A i \in 1..Len(x) : last.ret[k] # Fin(x[i], 1)
    /\ \E k \in Samples : last.weights[k] = Fin(0, 1)
    /\ \E k \in Samples : FLt(Fin(0, 1), last.weights[k])
    /\ \E w2 \in PositiveTables(Len(x)) :
          /\ \E i \in 1..Len(x) : \E j \in 1..Len(x) : w2[i] # w2[j]
          /\ Again(f, w2).weights # last.weights
          /\ \A k \in Samples : IsFinite(Again(f, w2).weights[k])

====
